---- MODULE Spec2Model ----
(***************************************************************************)
(* Model of the Sudoku game of src/components/sudoku-game.tsx: the puzzle  *)
(* generator (generateRandomSudoku, fillGrid, isValidPlacement,            *)
(* shuffleArray, removeCells), the validator (isValidMove,                 *)
(* updateValidation) and the event handlers of the SudokuGame component.   *)
(*                                                                         *)
(* The grid is (BoxSize*BoxSize) x (BoxSize*BoxSize).  The source has      *)
(* BoxSize = 3 (a 9 x 9 grid, digits 1..9) and removes 45..50 cells; the   *)
(* model is scaled down by the bounds BoxSize, MinCellsToRemove and        *)
(* CellsToRemoveRange so that a whole game (every blank filled) fits in    *)
(* the state space.  Every formula of the code is kept with the size as a  *)
(* parameter.                                                              *)
(*                                                                         *)
(* Not modelled: the presentation state, which no handler reads back when *)
(* it changes the game: the highlighting (highlightedNumber,               *)
(* highlightedPosition), the timer (timer, isTimerRunning), the dark mode  *)
(* flag and the audio synthesis.  The sounds a handler asks for are        *)
(* recorded in the variable sounds: they are the outcome the handler       *)
(* signals.  lastOp records which handler ran last.                        *)
(*                                                                         *)
(* Spec is the component as the user drives it (keys and buttons, with the *)
(* disabled attributes); HandlerSpec calls the handlers in any state.  In  *)
(* both a handler is one step, the generateRandomSudoku call of            *)
(* handleNewPuzzle included.  GenSpec and FillFairSpec run one             *)
(* generateRandomSudoku call step by step, in the variable gen.            *)
(***************************************************************************)
EXTENDS Integers, Sequences, FiniteSets, TLC

\* ---------------------------------------------------------------- bounds
\* Side of a box (3 in the source: Math.floor(row / 3) * 3).
BoxSize == 2
\* Least number of cells the carve step blanks (45 in the source).
MinCellsToRemove == 2
\* Number of different removal counts (6 in the source: 45 + 0..5).
CellsToRemoveRange == 2
\* Math.random() is modelled as u / RandomResolution with u in 0..RandomResolution-1.
RandomResolution == 4
\* The pseudo-random streams the generator is run with are 0..MaxSeed.
MaxSeed == 2
\* Cap on the length of moveHistory (the code has none).
MaxHistory == 4
\* In the step-by-step generator every shuffleArray call and the removal
\* count pick their stream among 0..MaxStepSeed.
MaxStepSeed == 1

\* ---------------------------------------------------------------- types
\* Side of the grid (9 in the source).
N == BoxSize * BoxSize
\* The JavaScript null of `number | null`.
null == 0
Index == 0 .. (N - 1)
Digits == 1 .. N
\* selectedCell === null
NoCell == <<>>
Positions == {<<r, c>> : r \in Index, c \in Index}

\* ---------------------------------------------------------------- Math.random
\* The k-th value Math.random() returns in the run with the given seed,
\* as a numerator over RandomResolution.
random(seed, k) == (seed + k * (seed + 1)) % RandomResolution

\* Math.floor(Math.random() * n) for the k-th call.
randomBelow(seed, k, n) == (random(seed, k) * n) \div RandomResolution

\* ---------------------------------------------------------------- generator
\* [array[i], array[j]] = [array[j], array[i]], on a 1-based sequence
swap(array, i, j) == [array EXCEPT ![i] = array[j], ![j] = array[i]]

\* The loop of shuffleArray after `done` iterations: the loop index is
\* i = array.length - 1 - done, and its draw is the k-th random value.
RECURSIVE shuffleFrom(_, _, _, _)
shuffleFrom(array, done, seed, k) ==
    IF Len(array) - 1 - done > 0
    THEN shuffleFrom(swap(array, Len(array) - done,
                          randomBelow(seed, k, Len(array) - done) + 1),
                     done + 1, seed, k + 1)
    ELSE array

shuffleArray(array, seed, k) == shuffleFrom(array, 0, seed, k)

\* Number of Math.random() calls one shuffleArray makes.
shuffleDraws(array) == IF Len(array) > 0 THEN Len(array) - 1 ELSE 0

\* Faulty variant of isValidPlacement: the box loops are missing.
isValidPlacementNoBox(g, row, col, num) ==
    /\ \A c \in Index : g[row][c] # num
    /\ \A r \in Index : g[r][col] # num

isValidPlacement(g, row, col, num) ==
    /\ \A c \in Index : g[row][c] # num
    /\ \A r \in Index : g[r][col] # num
    /\ LET boxRow == (row \div BoxSize) * BoxSize
           boxCol == (col \div BoxSize) * BoxSize
       IN \A r \in boxRow .. (boxRow + BoxSize - 1) :
              \A c \in boxCol .. (boxCol + BoxSize - 1) : g[r][c] # num

\* Row-major positions holding null.
emptyCells(g) == {p \in Positions : g[p[1]][p[2]] = null}

\* The first cell the two nested for loops of fillGrid find empty.
firstEmpty(g) ==
    CHOOSE p \in emptyCells(g) :
        \A q \in emptyCells(g) : p[1] * N + p[2] <= q[1] * N + q[2]

\* const numbers = [1, 2, ..., 9]
numbersInOrder == [i \in 1 .. N |-> i]

\* The next candidate of `for (const num of numbers)`, from the idx-th on,
\* that passes `if (isValidPlacement(grid, row, col, num))`; Len(numbers) + 1
\* when the loop runs out.
nextPlaceable(g, row, col, numbers, idx) ==
    LET placeable == {i \in idx .. Len(numbers) : isValidPlacement(g, row, col, numbers[i])}
    IN IF placeable = {}
       THEN Len(numbers) + 1
       ELSE CHOOSE i \in placeable : \A j \in placeable : i <= j

\* The recursion of fillGrid, with its call stack made explicit.  A run is
\*   grid    the grid fillGrid works on, in place
\*   stack   one frame [row, col, numbers, tried, entered] per fillGrid call
\*           that is in its `for (const num of numbers)` loop; tried counts
\*           the candidates the loop has taken; entered is a history field,
\*           the content of the grid when the call was entered (the code
\*           keeps no such copy, and nothing in the run reads it)
\*   k       the number of random values consumed so far
\*   status  "call": a fillGrid call starts; "loop": the call on top of the
\*           stack takes its next candidate; "return": a call has returned
\*           ok; "done": the outermost call has returned ok
fillStart(g, k) == [grid |-> g, stack |-> <<>>, k |-> k, status |-> "call", ok |-> FALSE]

top(stack) == stack[Len(stack)]
pop(stack) == SubSeq(stack, 1, Len(stack) - 1)

\* A fillGrid call starts: `return true` when no cell is empty, otherwise
\* shuffle the candidates for the first empty cell and enter the loop.
fillCall(run, seed) ==
    IF emptyCells(run.grid) = {}
    THEN [run EXCEPT !.status = "return", !.ok = TRUE]
    ELSE [run EXCEPT
             !.stack = Append(@, [row |-> firstEmpty(run.grid)[1],
                                  col |-> firstEmpty(run.grid)[2],
                                  numbers |-> shuffleArray(numbersInOrder, seed, run.k),
                                  tried |-> 0,
                                  entered |-> run.grid]),
             !.k = @ + shuffleDraws(numbersInOrder),
             !.status = "loop"]

\* Faulty variant of fillLoop: only the first candidate is tried.
fillLoopFirstOnly(run) ==
    LET frame == top(run.stack)
    IN IF frame.tried > 0
          \/ ~isValidPlacement(run.grid, frame.row, frame.col, frame.numbers[1])
       THEN [run EXCEPT !.stack = pop(@), !.status = "return", !.ok = FALSE]
       ELSE [run EXCEPT !.grid[frame.row][frame.col] = frame.numbers[1],
                        !.stack[Len(run.stack)].tried = 1,
                        !.status = "call"]

\* The loop goes on to the next candidate that passes the placement check,
\* places it and calls fillGrid; `return false` when no candidate is left.
fillLoop(run) ==
    LET frame == top(run.stack)
        next == nextPlaceable(run.grid, frame.row, frame.col, frame.numbers, frame.tried + 1)
    IN IF next > Len(frame.numbers)
       THEN [run EXCEPT !.stack = pop(@), !.status = "return", !.ok = FALSE]
       ELSE [run EXCEPT !.grid[frame.row][frame.col] = frame.numbers[next],
                        !.stack[Len(run.stack)].tried = next,
                        !.status = "call"]

\* Faulty variant of fillReturn: `grid[row][col] = null` is missing.
fillReturnNoRestore(run) ==
    IF run.stack = <<>>
    THEN [run EXCEPT !.status = "done"]
    ELSE IF run.ok
         THEN [run EXCEPT !.stack = pop(@)]
         ELSE [run EXCEPT !.status = "loop"]

\* Back in the caller: `return true` in its turn, or restore the cell to
\* null and go on with the loop.
fillReturn(run) ==
    IF run.stack = <<>>
    THEN [run EXCEPT !.status = "done"]
    ELSE IF run.ok
         THEN [run EXCEPT !.stack = pop(@)]
         ELSE [run EXCEPT !.grid[top(run.stack).row][top(run.stack).col] = null,
                          !.status = "loop"]

fillStep(run, seed) ==
    CASE run.status = "call" -> fillCall(run, seed)
      [] run.status = "loop" -> fillLoop(run)
      [] run.status = "return" -> fillReturn(run)
      [] OTHER -> run

\* The steps of a run up to "done", four to a level of the recursion
\* (fillStep leaves a run that is done as it is).
RECURSIVE fillRun(_, _)
fillRun(run, seed) ==
    IF run.status = "done"
    THEN run
    ELSE fillRun(fillStep(fillStep(fillStep(fillStep(run, seed), seed), seed), seed), seed)

\* fillGrid(grid), started when k random values have been consumed: the
\* outcome [ok, grid, k, ...] of the whole recursion.
fillGrid(g, seed, k) == fillRun(fillStart(g, k), seed)

\* cells.push([row, col]) in row-major order
allCells == [i \in 1 .. (N * N) |-> <<(i - 1) \div N, (i - 1) % N>>]

\* Faulty variant of removeCells: `i <= count` for `i < count`.
removeCellsInclusive(g, count, seed, k) ==
    LET cells == shuffleArray(allCells, seed, k)
        removed == {cells[i + 1] : i \in {j \in 0 .. (Len(cells) - 1) : j <= count}}
    IN [row \in Index |-> [col \in Index |->
           IF <<row, col>> \in removed THEN null ELSE g[row][col]]]

removeCells(g, count, seed, k) ==
    LET cells == shuffleArray(allCells, seed, k)
        removed == {cells[i + 1] : i \in {j \in 0 .. (Len(cells) - 1) : j < count}}
    IN [row \in Index |-> [col \in Index |->
           IF <<row, col>> \in removed THEN null ELSE g[row][col]]]

emptyGrid == [row \in Index |-> [col \in Index |-> null]]

generateRandomSudoku(seed) ==
    LET filled == fillGrid(emptyGrid, seed, 0)
        cellsToRemove == MinCellsToRemove + randomBelow(seed, filled.k, CellsToRemoveRange)
    IN removeCells(filled.grid, cellsToRemove, seed, filled.k + 1)

\* The puzzles generateRandomSudoku returns under the modelled random streams.
GeneratedPuzzles == {generateRandomSudoku(seed) : seed \in 0 .. MaxSeed}

\* ---------------------------------------------------------------- validator
\* Faulty variant of isValidMove: the column loop is missing.
isValidMoveNoColumn(g, row, col, num) ==
    /\ \A c \in Index : ~(c # col /\ g[row][c].value = num)
    /\ LET boxRow == (row \div BoxSize) * BoxSize
           boxCol == (col \div BoxSize) * BoxSize
       IN \A r \in boxRow .. (boxRow + BoxSize - 1) :
              \A c \in boxCol .. (boxCol + BoxSize - 1) :
                  ~((r # row \/ c # col) /\ g[r][c].value = num)

\* Faulty variant of isValidMove: `<` for `!==`, only the cells before
\* (row, col) in its row, column and box are compared.
isValidMoveEarlierCellsOnly(g, row, col, num) ==
    /\ \A c \in Index : ~(c < col /\ g[row][c].value = num)
    /\ \A r \in Index : ~(r < row /\ g[r][col].value = num)
    /\ LET boxRow == (row \div BoxSize) * BoxSize
           boxCol == (col \div BoxSize) * BoxSize
       IN \A r \in boxRow .. (boxRow + BoxSize - 1) :
              \A c \in boxCol .. (boxCol + BoxSize - 1) :
                  ~((r < row \/ (r = row /\ c < col)) /\ g[r][c].value = num)

isValidMove(g, row, col, num) ==
    /\ \A c \in Index : ~(c # col /\ g[row][c].value = num)
    /\ \A r \in Index : ~(r # row /\ g[r][col].value = num)
    /\ LET boxRow == (row \div BoxSize) * BoxSize
           boxCol == (col \div BoxSize) * BoxSize
       IN \A r \in boxRow .. (boxRow + BoxSize - 1) :
              \A c \in boxCol .. (boxCol + BoxSize - 1) :
                  ~((r # row \/ c # col) /\ g[r][c].value = num)

\* Faulty variant of updateValidation: the flag of a fixed cell is left as it is.
updateValidationSkipsFixed(newGrid) ==
    [rowIndex \in Index |-> [colIndex \in Index |->
        IF newGrid[rowIndex][colIndex].isFixed
        THEN newGrid[rowIndex][colIndex]
        ELSE [newGrid[rowIndex][colIndex] EXCEPT
                 !.isValid = \/ newGrid[rowIndex][colIndex].value = null
                             \/ isValidMove(newGrid, rowIndex, colIndex,
                                            newGrid[rowIndex][colIndex].value)]]]

updateValidation(newGrid) ==
    [rowIndex \in Index |-> [colIndex \in Index |->
        [newGrid[rowIndex][colIndex] EXCEPT
            !.isValid = \/ newGrid[rowIndex][colIndex].value = null
                        \/ isValidMove(newGrid, rowIndex, colIndex,
                                       newGrid[rowIndex][colIndex].value)]]]

\* ---------------------------------------------------------------- session state
VARIABLES
    grid,                \* SudokuCell[][]
    selectedCell,        \* <<row, col>> or NoCell
    isComplete,
    moveHistory,         \* sequence of [grid, selectedCell]
    lives,
    currentPuzzle,       \* the SudokuGrid the session was built from
    lastOp,              \* name of the handler that ran last
    sounds,              \* the sounds the last handler played
    gen                  \* the generateRandomSudoku call in progress, if any

vars == <<grid, selectedCell, isComplete, moveHistory, lives, currentPuzzle,
          lastOp, sounds, gen>>

\* What the specification calls the GameSession (PuzzleSeed apart).
session == <<grid, selectedCell, moveHistory, lives, isComplete>>

\* randomPuzzle.map(row => row.map(cell => ({value, isFixed, isValid})))
initialGrid(puzzle) ==
    [row \in Index |-> [col \in Index |->
        [value |-> puzzle[row][col],
         isFixed |-> puzzle[row][col] # null,
         isValid |-> TRUE]]]

\* Faulty variant of withValue: `||` for `&&`, the whole row and column are written.
withValueRowOrCol(g, cell, newValue) ==
    [rowIndex \in Index |-> [colIndex \in Index |->
        IF rowIndex = cell[1] \/ colIndex = cell[2]
        THEN [g[rowIndex][colIndex] EXCEPT !.value = newValue]
        ELSE g[rowIndex][colIndex]]]

\* grid.map(...) replacing the value of the selected cell only
withValue(g, cell, newValue) ==
    [rowIndex \in Index |-> [colIndex \in Index |->
        IF rowIndex = cell[1] /\ colIndex = cell[2]
        THEN [g[rowIndex][colIndex] EXCEPT !.value = newValue]
        ELSE g[rowIndex][colIndex]]]

\* Faulty variant of loseLife: no floor at 0.
loseLifeNoFloor(prev) == prev - 1

\* setLives((prev) => Math.max(0, prev - 1))
loseLife(prev) == IF prev - 1 > 0 THEN prev - 1 ELSE 0

\* Faulty variant of isFull: `some` row for `every` row.
isFullSomeRow(g) == \E row \in Index : \A col \in Index : g[row][col].value # null

isFull(g) == \A row \in Index : \A col \in Index : g[row][col].value # null
isValid(g) == \A row \in Index : \A col \in Index : g[row][col].isValid

\* Faulty variant of saveToHistory: the snapshot takes the grid of the render
\* (the state variable) instead of the grid it is given.
saveToHistoryStale(prev, newGrid, newSelectedCell) ==
    Append(prev, [grid |-> grid, selectedCell |-> newSelectedCell])

\* Faulty variant of saveToHistory: the snapshot stored last shares the grid
\* that is pushed (it shows the new grid too).
saveToHistoryOverwritesLast(prev, newGrid, newSelectedCell) ==
    Append([prev EXCEPT ![Len(prev)].grid = newGrid],
           [grid |-> newGrid, selectedCell |-> newSelectedCell])

\* setMoveHistory((prev) => [...prev, {grid, selectedCell}])
saveToHistory(prev, newGrid, newSelectedCell) ==
    Append(prev, [grid |-> newGrid, selectedCell |-> newSelectedCell])

\* Faulty variant of startSession: setSelectedCell(null) is missing.
startSessionKeepSelection(puzzle, name) ==
    /\ grid' = initialGrid(puzzle)
    /\ selectedCell' = selectedCell
    /\ isComplete' = FALSE
    /\ moveHistory' = <<[grid |-> initialGrid(puzzle), selectedCell |-> NoCell]>>
    /\ lives' = 3
    /\ currentPuzzle' = puzzle
    /\ lastOp' = name
    /\ UNCHANGED gen

\* The session a puzzle starts with: the mount effect, handleReset and
\* handleNewPuzzle all build it the same way.
startSession(puzzle, name) ==
    /\ grid' = initialGrid(puzzle)
    /\ selectedCell' = NoCell
    /\ isComplete' = FALSE
    /\ moveHistory' = <<[grid |-> initialGrid(puzzle), selectedCell |-> NoCell]>>
    /\ lives' = 3
    /\ currentPuzzle' = puzzle
    /\ lastOp' = name
    /\ UNCHANGED gen

\* No generateRandomSudoku call is in progress: a handler runs to its end,
\* generation included, before the next event is taken.
genIdle == [pc |-> "idle", run |-> fillStart(emptyGrid, 0), cellsToRemove |-> 0, seed |-> 0]

\* State after the mount effect has run on the freshly constructed component.
Init ==
    \E randomPuzzle \in GeneratedPuzzles :
        /\ grid = initialGrid(randomPuzzle)
        /\ selectedCell = NoCell
        /\ isComplete = FALSE
        /\ moveHistory = <<[grid |-> initialGrid(randomPuzzle), selectedCell |-> NoCell]>>
        /\ lives = 3
        /\ currentPuzzle = randomPuzzle
        /\ lastOp = "mount"
        /\ sounds = {}
        /\ gen = genIdle

\* ---------------------------------------------------------------- handlers
\* Faulty variant of lastEntry: newHistory[0].
firstEntry(history) == history[1]

\* newHistory[newHistory.length - 1]
lastEntry(history) == history[Len(history)]

\* Faulty variant of handleUndo: undoing gives a life back.
handleUndoGivesLifeBack ==
    /\ lastOp' = "handleUndo"
    /\ UNCHANGED gen
    /\ IF Len(moveHistory) <= 1
       THEN /\ sounds' = {}
            /\ UNCHANGED <<grid, selectedCell, isComplete, moveHistory, lives, currentPuzzle>>
       ELSE LET newHistory == SubSeq(moveHistory, 1, Len(moveHistory) - 1)
                previousState == newHistory[Len(newHistory)]
            IN /\ sounds' = {"undo"}
               /\ moveHistory' = newHistory
               /\ grid' = previousState.grid
               /\ selectedCell' = previousState.selectedCell
               /\ isComplete' = FALSE
               /\ lives' = IF lives < 3 THEN lives + 1 ELSE lives
               /\ UNCHANGED currentPuzzle

handleUndo ==
    /\ lastOp' = "handleUndo"
    /\ UNCHANGED gen
    /\ IF Len(moveHistory) <= 1
       THEN /\ sounds' = {}
            /\ UNCHANGED <<grid, selectedCell, isComplete, moveHistory, lives, currentPuzzle>>
       ELSE LET newHistory == SubSeq(moveHistory, 1, Len(moveHistory) - 1)
                previousState == lastEntry(newHistory)
            IN /\ sounds' = {"undo"}
               /\ moveHistory' = newHistory
               /\ grid' = previousState.grid
               /\ selectedCell' = previousState.selectedCell
               /\ isComplete' = FALSE
               /\ UNCHANGED <<lives, currentPuzzle>>

handleNumberInput(num) ==
    /\ lastOp' = "handleNumberInput"
    /\ UNCHANGED gen
    /\ IF selectedCell = NoCell \/ grid[selectedCell[1]][selectedCell[2]].isFixed
       THEN /\ sounds' = {}
            /\ UNCHANGED <<grid, selectedCell, isComplete, moveHistory, lives, currentPuzzle>>
       ELSE LET currentValue == grid[selectedCell[1]][selectedCell[2]].value
                newValue == IF currentValue = num THEN null ELSE num
                newGrid == withValue(grid, selectedCell, newValue)
                validatedGrid == updateValidation(newGrid)
                invalid == /\ newValue # null
                           /\ ~validatedGrid[selectedCell[1]][selectedCell[2]].isValid
                complete == isFull(validatedGrid) /\ isValid(validatedGrid)
            IN /\ Len(moveHistory) < MaxHistory
               /\ lives' = IF invalid THEN loseLife(lives) ELSE lives
               /\ sounds' = (IF invalid THEN {"error"}
                             ELSE IF newValue # null THEN {"place"} ELSE {})
                            \cup (IF complete THEN {"success"} ELSE {})
               /\ grid' = validatedGrid
               /\ moveHistory' = saveToHistory(moveHistory, validatedGrid, selectedCell)
               /\ isComplete' = IF complete THEN TRUE ELSE isComplete
               /\ UNCHANGED <<selectedCell, currentPuzzle>>

\* Faulty variant of handleCellClick: `if (cell.isFixed) return` is missing.
handleCellClickAnyCell(row, col) ==
    /\ lastOp' = "handleCellClick"
    /\ UNCHANGED gen
    /\ sounds' = {"click"}
    /\ selectedCell' = <<row, col>>
    /\ UNCHANGED <<grid, isComplete, moveHistory, lives, currentPuzzle>>

handleCellClick(row, col) ==
    LET cell == grid[row][col] IN
    /\ lastOp' = "handleCellClick"
    /\ UNCHANGED gen
    /\ sounds' = {"click"}
    /\ selectedCell' = IF cell.isFixed THEN selectedCell ELSE <<row, col>>
    /\ UNCHANGED <<grid, isComplete, moveHistory, lives, currentPuzzle>>

\* Faulty variant of handleClear: nothing is done when the cell is empty already.
handleClearSkipsEmpty ==
    /\ lastOp' = "handleClear"
    /\ UNCHANGED gen
    /\ IF \/ selectedCell = NoCell
          \/ grid[selectedCell[1]][selectedCell[2]].isFixed
          \/ grid[selectedCell[1]][selectedCell[2]].value = null
       THEN /\ sounds' = {}
            /\ UNCHANGED <<grid, selectedCell, isComplete, moveHistory, lives, currentPuzzle>>
       ELSE LET newGrid == withValue(grid, selectedCell, null)
                validatedGrid == updateValidation(newGrid)
            IN /\ Len(moveHistory) < MaxHistory
               /\ sounds' = {"click"}
               /\ grid' = validatedGrid
               /\ moveHistory' = saveToHistory(moveHistory, validatedGrid, selectedCell)
               /\ isComplete' = FALSE
               /\ UNCHANGED <<selectedCell, lives, currentPuzzle>>

\* Faulty variant of handleClear: setIsComplete(false) is missing.
handleClearKeepsComplete ==
    /\ lastOp' = "handleClear"
    /\ UNCHANGED gen
    /\ IF selectedCell = NoCell \/ grid[selectedCell[1]][selectedCell[2]].isFixed
       THEN /\ sounds' = {}
            /\ UNCHANGED <<grid, selectedCell, isComplete, moveHistory, lives, currentPuzzle>>
       ELSE LET newGrid == withValue(grid, selectedCell, null)
                validatedGrid == updateValidation(newGrid)
            IN /\ Len(moveHistory) < MaxHistory
               /\ sounds' = {"click"}
               /\ grid' = validatedGrid
               /\ moveHistory' = saveToHistory(moveHistory, validatedGrid, selectedCell)
               /\ UNCHANGED <<selectedCell, isComplete, lives, currentPuzzle>>

handleClear ==
    /\ lastOp' = "handleClear"
    /\ UNCHANGED gen
    /\ IF selectedCell = NoCell \/ grid[selectedCell[1]][selectedCell[2]].isFixed
       THEN /\ sounds' = {}
            /\ UNCHANGED <<grid, selectedCell, isComplete, moveHistory, lives, currentPuzzle>>
       ELSE LET newGrid == withValue(grid, selectedCell, null)
                validatedGrid == updateValidation(newGrid)
            IN /\ Len(moveHistory) < MaxHistory
               /\ sounds' = {"click"}
               /\ grid' = validatedGrid
               /\ moveHistory' = saveToHistory(moveHistory, validatedGrid, selectedCell)
               /\ isComplete' = FALSE
               /\ UNCHANGED <<selectedCell, lives, currentPuzzle>>

\* Faulty variant of handleReset: setLives(3) is missing.
handleResetKeepsLives ==
    /\ sounds' = {"click"}
    /\ grid' = initialGrid(currentPuzzle)
    /\ selectedCell' = NoCell
    /\ isComplete' = FALSE
    /\ moveHistory' = <<[grid |-> initialGrid(currentPuzzle), selectedCell |-> NoCell]>>
    /\ lastOp' = "handleReset"
    /\ UNCHANGED gen
    /\ UNCHANGED <<lives, currentPuzzle>>

handleReset ==
    /\ sounds' = {"click"}
    /\ startSession(currentPuzzle, "handleReset")

handleNewPuzzle ==
    /\ sounds' = {"click"}
    /\ \E randomPuzzle \in GeneratedPuzzles : startSession(randomPuzzle, "handleNewPuzzle")

\* ---------------------------------------------------------------- user interface
\* disabled attribute of the number buttons and of the Clear button
inputDisabled ==
    \/ selectedCell = NoCell
    \/ grid[selectedCell[1]][selectedCell[2]].isFixed
    \/ lives = 0

\* disabled attribute of the Undo button
undoDisabled == Len(moveHistory) <= 1

\* handleKeyPress: a key "1".."9" reaches handleNumberInput whatever the buttons show
KeyPress == \E num \in Digits : handleNumberInput(num)
NumberButton == \E num \in Digits : ~inputDisabled /\ handleNumberInput(num)
CellButton == \E row \in Index, col \in Index : handleCellClick(row, col)
UndoButton == ~undoDisabled /\ handleUndo
ClearButton == ~inputDisabled /\ handleClear
ResetButton == handleReset
NewPuzzleButton == handleNewPuzzle

\* The component as the user drives it.
Next ==
    \/ KeyPress
    \/ NumberButton
    \/ CellButton
    \/ UndoButton
    \/ ClearButton
    \/ ResetButton
    \/ NewPuzzleButton

Spec == Init /\ [][Next]_vars

\* The handlers called in any state (the operations of the session, without
\* the disabled attributes of the buttons in front of them).
CallNumberInput == \E num \in Digits : handleNumberInput(num)
CallCellClick == \E row \in Index, col \in Index : handleCellClick(row, col)
CallUndo == handleUndo
CallClear == handleClear
CallReset == handleReset
CallNewPuzzle == handleNewPuzzle

NextHandlers ==
    \/ CallNumberInput
    \/ CallCellClick
    \/ CallUndo
    \/ CallClear
    \/ CallReset
    \/ CallNewPuzzle

HandlerSpec == Init /\ [][NextHandlers]_vars

\* ---------------------------------------------------------------- generateRandomSudoku, step by step
\* The generateRandomSudoku() call of the mount effect, one step of the fill
\* recursion at a time, on the component as useState has initialised it.
\* Each shuffleArray call and the removal count take their random values
\* from any of the streams 0..MaxStepSeed.
GenInit ==
    /\ grid = <<>>
    /\ selectedCell = NoCell
    /\ isComplete = FALSE
    /\ moveHistory = <<>>
    /\ lives = 3
    /\ currentPuzzle = <<>>
    /\ lastOp = "mount"
    /\ sounds = {}
    /\ gen = [pc |-> "fillGrid", run |-> fillStart(emptyGrid, 0), cellsToRemove |-> 0,
              seed |-> 0]

component == <<grid, selectedCell, isComplete, moveHistory, lives, currentPuzzle,
               lastOp, sounds>>

\* fillGrid(grid) is entered (the call of line 28 or a recursive call).
GenFillCall ==
    /\ gen.pc = "fillGrid"
    /\ gen.run.status = "call"
    /\ \E seed \in 0 .. MaxStepSeed : gen' = [gen EXCEPT !.run = fillCall(gen.run, seed)]
    /\ UNCHANGED component

\* The innermost fillGrid call takes its next candidate.
GenFillLoop ==
    /\ gen.pc = "fillGrid"
    /\ gen.run.status = "loop"
    /\ gen' = [gen EXCEPT !.run = fillLoop(gen.run)]
    /\ UNCHANGED component

\* A fillGrid call has returned to its caller.
GenFillReturn ==
    /\ gen.pc = "fillGrid"
    /\ gen.run.status = "return"
    /\ gen' = [gen EXCEPT !.run = fillReturn(gen.run)]
    /\ UNCHANGED component

\* const cellsToRemove = 45 + Math.floor(Math.random() * 6)
GenDrawCount ==
    /\ gen.pc = "fillGrid"
    /\ gen.run.status = "done"
    /\ \E seed \in 0 .. MaxStepSeed :
          gen' = [gen EXCEPT
                     !.pc = "removeCells",
                     !.cellsToRemove = MinCellsToRemove
                                       + randomBelow(seed, gen.run.k, CellsToRemoveRange),
                     !.run.k = @ + 1]
    /\ UNCHANGED component

\* removeCells(grid, cellsToRemove); return grid
GenRemoveCells ==
    /\ gen.pc = "removeCells"
    /\ \E seed \in 0 .. MaxStepSeed :
          gen' = [gen EXCEPT
                     !.pc = "return",
                     !.run.grid = removeCells(gen.run.grid, gen.cellsToRemove, seed, gen.run.k),
                     !.run.k = @ + shuffleDraws(allCells)]
    /\ UNCHANGED component

GenNext ==
    \/ GenFillCall
    \/ GenFillLoop
    \/ GenFillReturn
    \/ GenDrawCount
    \/ GenRemoveCells

GenSpec == GenInit /\ [][GenNext]_vars

\* The fill alone, with fewer random choices: the shuffles of one row of the
\* grid take their values from one stream, gen.seed, picked among 0..MaxSeed
\* when a fillGrid call finds its first empty cell at the start of a row.
GenRowFillCall ==
    /\ gen.pc = "fillGrid"
    /\ gen.run.status = "call"
    /\ \E seed \in 0 .. MaxSeed :
          /\ (emptyCells(gen.run.grid) # {} /\ firstEmpty(gen.run.grid)[2] # 0) => seed = gen.seed
          /\ emptyCells(gen.run.grid) = {} => seed = gen.seed
          /\ gen' = [gen EXCEPT !.run = fillCall(gen.run, seed), !.seed = seed]
    /\ UNCHANGED component

FillNext ==
    \/ GenRowFillCall
    \/ GenFillLoop
    \/ GenFillReturn

\* fillGrid is synchronous code: once called it keeps running.
FillFairSpec == GenInit /\ [][FillNext]_vars /\ WF_vars(FillNext)

\* ---------------------------------------------------------------- vocabulary of the properties
cellAt(g, p) == g[p[1]][p[2]]

sameRow(p, q) == p[1] = q[1]
sameCol(p, q) == p[2] = q[2]
sameBox(p, q) == /\ p[1] \div BoxSize = q[1] \div BoxSize
                 /\ p[2] \div BoxSize = q[2] \div BoxSize

\* Another cell of p's row, column or box holds p's (non-empty) value.
conflicts(g, p) ==
    /\ cellAt(g, p).value # null
    /\ \E q \in Positions :
          /\ q # p
          /\ sameRow(p, q) \/ sameCol(p, q) \/ sameBox(p, q)
          /\ cellAt(g, q).value = cellAt(g, p).value

everyCellFilled(g) == \A p \in Positions : cellAt(g, p).value # null

\* The handler is about to act on a selected cell that is not fixed.
editableSelection == selectedCell # NoCell /\ ~cellAt(grid, selectedCell).isFixed

PlayOps == {"handleCellClick", "handleNumberInput", "handleClear", "handleUndo"}
RestartOps == {"handleReset", "handleNewPuzzle"}

\* ---------------------------------------------------------------- C1
\* C1: no select, input, clear or undo changes the value or the isFixed flag
\* of a fixed cell, and a fixed cell always holds the value of the puzzle
\* the session was created from.
C1_FixedCellsImmutable ==
    [][lastOp' \in PlayOps =>
          \A p \in Positions :
              cellAt(grid, p).isFixed =>
                  /\ cellAt(grid', p).isFixed
                  /\ cellAt(grid', p).value = cellAt(grid, p).value
                  /\ cellAt(grid', p).value = currentPuzzle'[p[1]][p[2]]]_vars

\* An input has just put a digit next to a fixed cell holding the same digit:
\* revalidation has rewritten the fixed cell (isValid), its value stands.
C1_Witness ==
    /\ lastOp = "handleNumberInput"
    /\ \E p \in Positions : cellAt(grid, p).isFixed /\ ~cellAt(grid, p).isValid

\* ---------------------------------------------------------------- C2
\* C2: in every reachable state, a cell's isValid flag is true exactly when
\* the cell is empty or no other cell of its row, column or box holds its value.
C2_IsValidIsDerived ==
    \A p \in Positions : cellAt(grid, p).isValid <=> ~conflicts(grid, p)

\* A fixed cell and an entered cell are both flagged, a further entered cell
\* is non-empty and not flagged.
C2_Witness ==
    /\ \E p \in Positions : cellAt(grid, p).isFixed /\ ~cellAt(grid, p).isValid
    /\ \E p \in Positions : ~cellAt(grid, p).isFixed /\ ~cellAt(grid, p).isValid
    /\ \E p \in Positions :
          ~cellAt(grid, p).isFixed /\ cellAt(grid, p).value # null /\ cellAt(grid, p).isValid

\* ---------------------------------------------------------------- C3
\* C3: an input on an editable selected cell that leaves the cell non-empty
\* and invalid costs exactly one life (never below 0) and plays the error
\* sound; one that leaves it non-empty and valid costs nothing and plays the
\* place sound; one that empties the cell costs nothing and plays neither.
C3_LifeAccounting ==
    [][(lastOp' = "handleNumberInput" /\ editableSelection) =>
          LET after == cellAt(grid', selectedCell) IN
          /\ (after.value # null /\ ~after.isValid) =>
                 /\ lives' = (IF lives >= 1 THEN lives - 1 ELSE 0)
                 /\ "error" \in sounds' /\ "place" \notin sounds'
          /\ (after.value # null /\ after.isValid) =>
                 /\ lives' = lives
                 /\ "place" \in sounds' /\ "error" \notin sounds'
          /\ after.value = null =>
                 /\ lives' = lives
                 /\ "place" \notin sounds' /\ "error" \notin sounds']_vars

\* An invalid entry has just been made with no life left to lose.
C3_Witness ==
    /\ lastOp = "handleNumberInput"
    /\ "error" \in sounds
    /\ lives = 0

\* ---------------------------------------------------------------- C4
\* C4: lives stays in 0..3; a step that raises it is a reset or a new puzzle,
\* and every reset and new puzzle leaves it at 3.
C4_LivesOnlyRestartRaises ==
    [][/\ lives \in 0 .. 3
       /\ lives' \in 0 .. 3
       /\ lastOp' \in PlayOps => lives' <= lives
       /\ lives' > lives => lastOp' \in RestartOps
       /\ lastOp' \in RestartOps => lives' = 3]_vars

\* An invalid entry has been undone and the life is still lost.
C4_Witness ==
    /\ lastOp = "handleUndo"
    /\ sounds = {"undo"}
    /\ lives < 3
    /\ \A p \in Positions : cellAt(grid, p).isValid

\* ---------------------------------------------------------------- C5
\* C5: isComplete goes from false to true only in an input step whose
\* resulting grid has every cell filled and no cell invalid, and every input
\* on an editable selected cell with such a result leaves isComplete true.
C5_CompletionDetection ==
    [][/\ (isComplete = FALSE /\ isComplete' = TRUE) =>
              /\ lastOp' = "handleNumberInput"
              /\ everyCellFilled(grid')
              /\ \A p \in Positions : cellAt(grid', p).isValid
       /\ (/\ lastOp' = "handleNumberInput"
           /\ editableSelection
           /\ everyCellFilled(grid')
           /\ \A p \in Positions : cellAt(grid', p).isValid) => isComplete' = TRUE]_vars

\* The last blank has just been filled and the puzzle is reported solved.
C5_Witness ==
    /\ lastOp = "handleNumberInput"
    /\ isComplete
    /\ "success" \in sounds
    /\ everyCellFilled(grid)

\* ---------------------------------------------------------------- C6
\* C6: in a state where lives = 0 or isComplete holds, an input leaves the
\* value of every cell of the grid as it was.
C6_FailedAndCompletedBlockEntry ==
    [][((lives = 0 \/ isComplete) /\ lastOp' = "handleNumberInput") =>
          \A p \in Positions : cellAt(grid', p).value = cellAt(grid, p).value]_vars

\* ---------------------------------------------------------------- C7
\* C7 as stated: in every state at rest the history is non-empty and its
\* last snapshot holds the live grid and the live selection.
C7_LastSnapshotIsGridAndSelection ==
    /\ Len(moveHistory) >= 1
    /\ moveHistory[Len(moveHistory)].grid = grid
    /\ moveHistory[Len(moveHistory)].selectedCell = selectedCell

\* C7, amended: in every state at rest the history is non-empty and its last
\* snapshot holds the live grid; its last snapshot holds the live selection
\* right after every step that changes the history and after every reset and
\* new puzzle (a select changes the selection and pushes nothing).
C7_LastSnapshotIsGrid ==
    /\ [](/\ Len(moveHistory) >= 1
          /\ moveHistory[Len(moveHistory)].grid = grid)
    /\ [][(moveHistory' # moveHistory \/ lastOp' \in RestartOps) =>
             moveHistory'[Len(moveHistory')].selectedCell = selectedCell']_vars

\* After entries in one cell, another cell has just been selected: the last
\* snapshot holds the live grid and the selection of the last entry.
C7_Witness ==
    /\ lastOp = "handleCellClick"
    /\ Len(moveHistory) >= 2
    /\ moveHistory[Len(moveHistory)].grid = grid
    /\ moveHistory[Len(moveHistory)].selectedCell # NoCell
    /\ moveHistory[Len(moveHistory)].selectedCell # selectedCell

\* ---------------------------------------------------------------- C8
\* C8: in every reachable state the selection is unset or is the position of
\* a cell of the grid that is not fixed.
C8_SelectionIsEditable ==
    \/ selectedCell = NoCell
    \/ /\ selectedCell \in Positions
       /\ ~cellAt(grid, selectedCell).isFixed

\* An undo has just restored the selection stored in a snapshot.
C8_Witness ==
    /\ lastOp = "handleUndo"
    /\ sounds = {"undo"}
    /\ selectedCell # NoCell
    /\ cellAt(grid, selectedCell).value = null

\* ---------------------------------------------------------------- C9
\* C9: undo with a single snapshot in the history, input and clear with no
\* selection, and select on a fixed cell leave grid, selection, history,
\* lives and isComplete as they were.
C9_NoOpsLeaveSession ==
    [][/\ (lastOp' = "handleUndo" /\ Len(moveHistory) = 1) => UNCHANGED session
       /\ (lastOp' \in {"handleNumberInput", "handleClear"} /\ selectedCell = NoCell) =>
              UNCHANGED session
       /\ \A row \in Index, col \in Index :
              (grid[row][col].isFixed /\ handleCellClick(row, col)) =>
                  UNCHANGED session]_vars

\* Undo has just been called on a history of one snapshot, after play.
C9_Witness ==
    /\ lastOp = "handleUndo"
    /\ sounds = {}
    /\ Len(moveHistory) = 1
    /\ selectedCell # NoCell

\* ---------------------------------------------------------------- C10
\* C10: undo on a history of n >= 2 snapshots leaves the first n - 1 of them,
\* sets grid and selection to those of the new last snapshot, sets isComplete
\* to false and leaves lives and the puzzle of the session as they were.
C10_UndoRestoresPrevious ==
    [][(lastOp' = "handleUndo" /\ Len(moveHistory) >= 2) =>
          LET n == Len(moveHistory) IN
          /\ moveHistory' = SubSeq(moveHistory, 1, n - 1)
          /\ grid' = moveHistory[n - 1].grid
          /\ selectedCell' = moveHistory[n - 1].selectedCell
          /\ isComplete' = FALSE
          /\ lives' = lives
          /\ currentPuzzle' = currentPuzzle]_vars

\* An undo has just gone back to a snapshot that is not the initial one.
C10_Witness ==
    /\ lastOp = "handleUndo"
    /\ sounds = {"undo"}
    /\ Len(moveHistory) >= 2
    /\ moveHistory[Len(moveHistory)].grid = grid
    /\ moveHistory[Len(moveHistory)].grid # moveHistory[1].grid

\* ---------------------------------------------------------------- C11
\* The cell a freshly created session has at p for the puzzle: fixed with the
\* puzzle's value where the puzzle has one, empty and not fixed elsewhere,
\* valid in both cases.
freshCell(puzzle, p) ==
    IF puzzle[p[1]][p[2]] # null
    THEN [value |-> puzzle[p[1]][p[2]], isFixed |-> TRUE, isValid |-> TRUE]
    ELSE [value |-> null, isFixed |-> FALSE, isValid |-> TRUE]

\* C11: a reset leaves the session a fresh one for the same puzzle: every
\* cell is the fresh cell of the puzzle, the selection is unset, the history
\* is the single snapshot (that grid, no selection), lives = 3, isComplete is
\* false, and the puzzle of the session is the one it was.
C11_ResetIsFreshSession ==
    [][lastOp' = "handleReset" =>
          /\ currentPuzzle' = currentPuzzle
          /\ DOMAIN grid' = Index
          /\ \A row \in Index : DOMAIN grid'[row] = Index
          /\ \A p \in Positions : cellAt(grid', p) = freshCell(currentPuzzle, p)
          /\ selectedCell' = NoCell
          /\ moveHistory' = <<[grid |-> grid', selectedCell |-> NoCell]>>
          /\ lives' = 3
          /\ isComplete' = FALSE]_vars

\* A reset has just been made.
C11_Witness ==
    /\ lastOp = "handleReset"
    /\ sounds = {"click"}
    /\ Len(moveHistory) = 1
    /\ selectedCell = NoCell
    /\ lives = 3

\* ---------------------------------------------------------------- C12
\* Two different cells of one row, column or box of the raw grid hold the
\* same digit.
rawDuplicate(g) ==
    \E p \in Positions, q \in Positions :
        /\ p # q
        /\ sameRow(p, q) \/ sameCol(p, q) \/ sameBox(p, q)
        /\ g[p[1]][p[2]] # null
        /\ g[p[1]][p[2]] = g[q[1]][q[2]]

\* C12: the grid generateRandomSudoku returns has no digit twice among the
\* non-empty entries of a row, a column or a box.
C12_GeneratedGridHasNoDuplicate ==
    gen.pc = "return" => ~rawDuplicate(gen.run.grid)

\* A grid has been returned with the largest removal count.
C12_Witness ==
    /\ gen.pc = "return"
    /\ Cardinality(emptyCells(gen.run.grid)) = MinCellsToRemove + CellsToRemoveRange - 1
    /\ \E p \in Positions : gen.run.grid[p[1]][p[2]] # null

\* ---------------------------------------------------------------- C13
\* C13: the carve step starts on a grid with no empty cell, and the grid
\* generateRandomSudoku returns has exactly cellsToRemove empty cells, a
\* number in MinCellsToRemove .. MinCellsToRemove + CellsToRemoveRange - 1
\* (45..50 in the source).
C13_RemovalCount ==
    /\ gen.pc = "removeCells" => emptyCells(gen.run.grid) = {}
    /\ gen.pc \in {"removeCells", "return"} =>
           gen.cellsToRemove \in MinCellsToRemove .. (MinCellsToRemove + CellsToRemoveRange - 1)
    /\ gen.pc = "return" => Cardinality(emptyCells(gen.run.grid)) = gen.cellsToRemove

\* A grid has been returned with the smallest removal count.
C13_Witness ==
    /\ gen.pc = "return"
    /\ gen.cellsToRemove = MinCellsToRemove
    /\ Cardinality(emptyCells(gen.run.grid)) = MinCellsToRemove

\* ---------------------------------------------------------------- C14
\* C14: the fillGrid call on the all-empty grid returns, and when it has
\* returned it has reported success and every cell holds a digit.
C14_FillSucceeds ==
    /\ <>(gen.run.status = "done")
    /\ []((gen.pc = "fillGrid" /\ gen.run.status = "done") =>
             /\ gen.run.ok
             /\ \A p \in Positions : gen.run.grid[p[1]][p[2]] \in Digits)

\* The fill has returned after recursive calls that failed: it has shuffled
\* more often than once per cell.
C14_Witness ==
    /\ gen.pc = "fillGrid"
    /\ gen.run.status = "done"
    /\ gen.run.ok
    /\ gen.run.k > N * N * shuffleDraws(numbersInOrder)

\* ---------------------------------------------------------------- C15
\* The cells other than p, in p's row, column or box, that hold digit d.
holders(g, p, d) ==
    {q \in Positions : /\ q # p
                       /\ sameRow(p, q) \/ sameCol(p, q) \/ sameBox(p, q)
                       /\ cellAt(g, q).value = d}

allCellsValid(g) == \A q \in Positions : cellAt(g, q).isValid

\* C15: (first entry) on a grid whose cells are all valid, an input at an
\* empty editable selected cell p of a digit d that other cells of p's row,
\* column or box hold leaves invalid exactly p and those cells; (second
\* entry) an input that follows such an entry at once and empties p gives
\* every cell the value and the isValid flag it had before the first entry
\* and leaves lives as it is.
C15_ConflictMarkedThenToggledOff ==
    [][/\ (/\ lastOp' = "handleNumberInput"
           /\ editableSelection
           /\ cellAt(grid, selectedCell).value = null
           /\ allCellsValid(grid)
           /\ holders(grid, selectedCell, cellAt(grid', selectedCell).value) # {}) =>
              \A q \in Positions :
                  ~cellAt(grid', q).isValid <=>
                      q \in holders(grid, selectedCell, cellAt(grid', selectedCell).value)
                            \cup {selectedCell}
       /\ (/\ lastOp = "handleNumberInput"
           /\ "error" \in sounds
           /\ Len(moveHistory) >= 2
           /\ allCellsValid(moveHistory[Len(moveHistory) - 1].grid)
           /\ cellAt(moveHistory[Len(moveHistory) - 1].grid, selectedCell).value = null
           /\ lastOp' = "handleNumberInput"
           /\ cellAt(grid', selectedCell).value = null) =>
              /\ \A q \in Positions :
                    /\ cellAt(grid', q).value
                          = cellAt(moveHistory[Len(moveHistory) - 1].grid, q).value
                    /\ cellAt(grid', q).isValid
                          = cellAt(moveHistory[Len(moveHistory) - 1].grid, q).isValid
              /\ lives' = lives]_vars

\* A conflicting digit has been entered in an empty cell of a grid with all
\* cells valid, and entered again: the grid is back, one life is lost.
C15_Witness ==
    /\ lastOp = "handleNumberInput"
    /\ sounds = {}
    /\ Len(moveHistory) >= 3
    /\ moveHistory[Len(moveHistory) - 2].grid = grid
    /\ allCellsValid(grid)
    /\ ~cellAt(moveHistory[Len(moveHistory) - 1].grid, selectedCell).isValid
    /\ \E q \in Positions :
          q # selectedCell /\ ~cellAt(moveHistory[Len(moveHistory) - 1].grid, q).isValid
    /\ lives = 2

\* ---------------------------------------------------------------- C16
\* C16: in every reachable state, isComplete implies that every cell of the
\* grid is non-empty and valid.
C16_CompleteMeansSolved ==
    isComplete => (everyCellFilled(grid) /\ allCellsValid(grid))

\* ---------------------------------------------------------------- C17
\* The snapshot a session starts with for the puzzle.
freshSnapshot(puzzle) ==
    [grid |-> [row \in Index |-> [col \in Index |-> freshCell(puzzle, <<row, col>>)]],
     selectedCell |-> NoCell]

\* C17: the first snapshot of the history is always the initial snapshot of
\* the session's puzzle, and the stored snapshots never change: a select
\* leaves the history as it is, an input or a clear leaves it as it is or
\* appends one snapshot to it, an undo leaves it as it is or removes its last
\* snapshot.
C17_HistoryAppendOnlyExceptPop ==
    /\ [](/\ Len(moveHistory) >= 1
          /\ moveHistory[1] = freshSnapshot(currentPuzzle))
    /\ [][/\ lastOp' = "handleCellClick" => moveHistory' = moveHistory
          /\ lastOp' \in {"handleNumberInput", "handleClear"} =>
                 \/ moveHistory' = moveHistory
                 \/ /\ Len(moveHistory') = Len(moveHistory) + 1
                    /\ SubSeq(moveHistory', 1, Len(moveHistory)) = moveHistory
          /\ lastOp' = "handleUndo" =>
                 \/ moveHistory' = moveHistory
                 \/ moveHistory' = SubSeq(moveHistory, 1, Len(moveHistory) - 1)]_vars

\* The history is as long as it gets, no two of its snapshots hold the same
\* grid, and the first is the initial one.
C17_Witness ==
    /\ lastOp \in {"handleNumberInput", "handleClear"}
    /\ Len(moveHistory) = MaxHistory
    /\ moveHistory[1] = freshSnapshot(currentPuzzle)
    /\ \A i \in 1 .. Len(moveHistory), j \in 1 .. Len(moveHistory) :
          i # j => moveHistory[i].grid # moveHistory[j].grid

\* ---------------------------------------------------------------- C18
\* C18: a select leaves history, grid, lives and isComplete as they were;
\* an input or a clear on an editable selected cell appends to the history
\* exactly one snapshot, of the resulting grid and selection, whether or not
\* a value has changed.
C18_SnapshotPerEdit ==
    [][/\ lastOp' = "handleCellClick" =>
              UNCHANGED <<moveHistory, grid, lives, isComplete>>
       /\ (lastOp' \in {"handleNumberInput", "handleClear"} /\ editableSelection) =>
              moveHistory' = Append(moveHistory,
                                    [grid |-> grid', selectedCell |-> selectedCell'])]_vars

\* A clear on a cell that was empty already has pushed a snapshot.
C18_Witness ==
    /\ lastOp = "handleClear"
    /\ sounds = {"click"}
    /\ Len(moveHistory) >= 2
    /\ moveHistory[Len(moveHistory)].grid = moveHistory[Len(moveHistory) - 1].grid
    /\ cellAt(moveHistory[Len(moveHistory) - 1].grid, selectedCell).value = null

\* ---------------------------------------------------------------- C19
\* C19: an input or a clear leaves the value of every cell but the selected
\* one, and the isFixed flag of every cell, as they were; a clear on an
\* editable selected cell leaves that cell empty and isComplete false, and
\* leaves lives and the selection as they were.
C19_EditTouchesSelectedCellOnly ==
    [][/\ lastOp' \in {"handleNumberInput", "handleClear"} =>
              \A q \in Positions :
                  /\ q # selectedCell => cellAt(grid', q).value = cellAt(grid, q).value
                  /\ cellAt(grid', q).isFixed = cellAt(grid, q).isFixed
       /\ (lastOp' = "handleClear" /\ editableSelection) =>
              /\ cellAt(grid', selectedCell).value = null
              /\ isComplete' = FALSE
              /\ lives' = lives
              /\ selectedCell' = selectedCell]_vars

\* A cell of a full grid with every cell valid has just been cleared.
C19_Witness ==
    /\ lastOp = "handleClear"
    /\ sounds = {"click"}
    /\ ~isComplete
    /\ Len(moveHistory) >= 2
    /\ everyCellFilled(moveHistory[Len(moveHistory) - 1].grid)
    /\ allCellsValid(moveHistory[Len(moveHistory) - 1].grid)
    /\ cellAt(grid, selectedCell).value = null

\* ---------------------------------------------------------------- C20
\* The values of the cells of a play grid, as a raw grid.
valuesOf(g) == [row \in Index |-> [col \in Index |-> g[row][col].value]]

\* No cell other than (row, col), in its row, column or box, holds num.
noOtherCellHolds(raw, row, col, num) ==
    \A q \in Positions :
        (/\ q # <<row, col>>
         /\ sameRow(<<row, col>>, q) \/ sameCol(<<row, col>>, q) \/ sameBox(<<row, col>>, q)) =>
            raw[q[1]][q[2]] # num

\* C20 as stated: on the values of a grid, isValidMove and isValidPlacement
\* are both true exactly when no cell other than (row, col), in its row,
\* column or box, holds the digit.
C20_BothChecksExcludeTheCell ==
    \A row \in Index, col \in Index, num \in Digits :
        /\ isValidMove(grid, row, col, num)
              <=> noOtherCellHolds(valuesOf(grid), row, col, num)
        /\ isValidPlacement(valuesOf(grid), row, col, num)
              <=> noOtherCellHolds(valuesOf(grid), row, col, num)

\* C20, amended: isValidMove is true exactly when no cell other than
\* (row, col), in its row, column or box, holds the digit; isValidPlacement
\* is true exactly when, in addition, (row, col) itself does not hold it.
\* The two agree on every cell that does not hold the digit.
C20_PlacementCheckCountsTheCell ==
    \A row \in Index, col \in Index, num \in Digits :
        /\ isValidMove(grid, row, col, num)
              <=> noOtherCellHolds(valuesOf(grid), row, col, num)
        /\ isValidPlacement(valuesOf(grid), row, col, num)
              <=> (/\ noOtherCellHolds(valuesOf(grid), row, col, num)
                   /\ grid[row][col].value # num)
        /\ grid[row][col].value # num =>
              (isValidMove(grid, row, col, num)
                  <=> isValidPlacement(valuesOf(grid), row, col, num))

\* An entered cell holds a digit no other cell of its row, column or box
\* holds: isValidMove accepts the digit there, isValidPlacement does not.
C20_Witness ==
    \E p \in Positions :
        /\ ~cellAt(grid, p).isFixed
        /\ cellAt(grid, p).value # null
        /\ isValidMove(grid, p[1], p[2], cellAt(grid, p).value)
        /\ ~isValidPlacement(valuesOf(grid), p[1], p[2], cellAt(grid, p).value)

\* ---------------------------------------------------------------- C21
\* The cells whose isValid flag is false, and the cells in conflict.
invalidCells(g) == {q \in Positions : ~cellAt(g, q).isValid}
conflictingCells(g) == {q \in Positions : conflicts(g, q)}

\* The input that has just run placed a digit and found the selected cell
\* valid: the branch of handleNumberInput that plays the place sound.
placed == lastOp = "handleNumberInput" /\ "place" \in sounds

\* C21: an input that places a digit in the selected cell and finds that
\* cell valid after revalidation leaves the selected cell valid and makes no
\* cell invalid that was valid before it: the invalid cells after it are
\* among the invalid cells before it, and so are the cells in conflict.
C21_PlacedCreatesNoInvalidCell ==
    [][placed' =>
          /\ cellAt(grid', selectedCell).value # null
          /\ cellAt(grid', selectedCell).isValid
          /\ invalidCells(grid') \subseteq invalidCells(grid)
          /\ conflictingCells(grid') \subseteq conflictingCells(grid)]_vars

\* A digit has been placed validly in a grid where other cells are invalid,
\* and they stay so.
C21_Witness ==
    /\ placed
    /\ \E q \in Positions : q # selectedCell /\ ~cellAt(grid, q).isValid
    /\ invalidCells(grid) = conflictingCells(grid)

\* ---------------------------------------------------------------- C22
\* The cells that g has filled hold the same values in h.
keepsFilledCells(g, h) == \A p \in Positions : g[p[1]][p[2]] # null => h[p[1]][p[2]] = g[p[1]][p[2]]

\* The step is the return of the innermost fillGrid call that is in its loop.
callReturns == Len(gen'.run.stack) < Len(gen.run.stack)

\* C22: the step by which a fillGrid call reports failure leaves the grid
\* equal to its content when that call was entered; as long as a fillGrid
\* call runs, and when it returns, every cell that was filled when it was
\* entered holds the value it held then.
C22_FailedCallRestoresGrid ==
    /\ [](\A i \in 1 .. Len(gen.run.stack) :
              keepsFilledCells(gen.run.stack[i].entered, gen.run.grid))
    /\ [][/\ (callReturns /\ ~gen'.run.ok) =>
                 gen'.run.grid = top(gen.run.stack).entered
          /\ callReturns =>
                 keepsFilledCells(top(gen.run.stack).entered, gen'.run.grid)]_vars

\* A fillGrid call has just reported failure to a caller that is in its
\* loop, and it is not the first call to fail.
C22_Witness ==
    /\ gen.pc = "fillGrid"
    /\ gen.run.status = "return"
    /\ ~gen.run.ok
    /\ gen.run.stack # <<>>
    /\ gen.run.k >= (Len(gen.run.stack) + 2) * shuffleDraws(numbersInOrder)
    /\ gen.run.grid[top(gen.run.stack).row][top(gen.run.stack).col] # null
====
